---- MODULE Spec2Model ----
(***************************************************************************)
(* Model of src/vassis.py: the configuration loader / ConfigManager        *)
(* singleton (lines 1-118) and the natural-language TimeParser             *)
(* (lines 119-301).                                                        *)
(*                                                                         *)
(* Texts are sequences of one-character strings, so that lower(), strip()  *)
(* and every regular expression of the source are computed character by    *)
(* character.  A datetime is a record of an ordinal date (date 0 is a      *)
(* Monday) and its time-of-day fields; a timedelta is a normalised         *)
(* (days, seconds) pair, as in CPython.                                    *)
(***************************************************************************)
EXTENDS Integers, Sequences, FiniteSets, TLC

VARIABLES
    call,       \* the last TimeParser call: operation and arguments
    result,     \* its outcome: a returned value or a raised exception
    phase,      \* "start" before the module body runs, then "imported" / "import_failed"
    instance,   \* ConfigManager._instance: 0 for None, else the identity of the object
    config,     \* the singleton's _config: NoConfig or an AssistantConfig object
    environ,    \* os.environ, restricted to the two API-key variables
    files,      \* the file system: path -> contents of the settings file
    lastop      \* the last ConfigManager call and its outcome

vars == <<call, result, phase, instance, config, environ, files, lastop>>
timeVars == <<call, result>>
configVars == <<phase, instance, config, environ, files, lastop>>

(***************************************************************************)
(* Characters and strings                                                  *)
(***************************************************************************)
DigitChars == <<"0", "1", "2", "3", "4", "5", "6", "7", "8", "9">>

IsDigit(c) == \E d \in 1..10 : DigitChars[d] = c

DigitVal(c) == (CHOOSE d \in 1..10 : DigitChars[d] = c) - 1

\* \s of the re module, restricted to the whitespace the inputs use
IsSpace(c) == c \in {" ", "\t"}

\* str.lower() on one character (the upper-case letters the inputs use)
LowerChar(c) ==
    CASE c = "A" -> "a" [] c = "D" -> "d" [] c = "H" -> "h" [] c = "I" -> "i"
      [] c = "M" -> "m" [] c = "O" -> "o" [] c = "P" -> "p" [] c = "S" -> "s"
      [] c = "T" -> "t" [] OTHER -> c

Lower(s) == [i \in 1..Len(s) |-> LowerChar(s[i])]

\* str.strip(): drop leading and trailing whitespace
Strip(s) ==
    LET keep == {i \in 1..Len(s) : ~IsSpace(s[i])} IN
    IF keep = {} THEN <<>>
    ELSE LET lo == CHOOSE i \in keep : \A j \in keep : i <= j
             hi == CHOOSE i \in keep : \A j \in keep : j <= i
         IN SubSeq(s, lo, hi)

\* int() of a non-empty run of decimal digits
RECURSIVE ParseInt(_)
ParseInt(ds) ==
    IF Len(ds) = 0 THEN 0
    ELSE 10 * ParseInt(SubSeq(ds, 1, Len(ds) - 1)) + DigitVal(ds[Len(ds)])

\* the literal `lit` occurs in s at position i
StartsAt(s, i, lit) ==
    /\ i >= 1
    /\ i + Len(lit) - 1 <= Len(s)
    /\ \A k \in 1..Len(lit) : s[i + k - 1] = lit[k]

\* `needle in s`
Contains(s, needle) == \E i \in 1..Len(s) : StartsAt(s, i, needle)

\* end of the greedy \d+ that starts at i (s[i] is a digit)
DigitRunEnd(s, i) ==
    CHOOSE e \in i..Len(s) :
        /\ \A k \in i..e : IsDigit(s[k])
        /\ (e = Len(s) \/ ~IsDigit(s[e + 1]))

\* first position at or after i that the greedy \s* does not consume
SkipSpaces(s, i) ==
    CHOOSE j \in i..(Len(s) + 1) :
        /\ \A k \in i..(j - 1) : IsSpace(s[k])
        /\ (j = Len(s) + 1 \/ ~IsSpace(s[j]))

\* the least element of a non-empty set of positions: re.search is leftmost
MinOf(S) == CHOOSE x \in S : \A y \in S : x <= y

(***************************************************************************)
(* timedelta                                                               *)
(***************************************************************************)
SecondsPerMinute == 60
SecondsPerHour == 3600
SecondsPerDay == 86400
MinutesPerDay == 1440
HoursPerDay == 24
DaysPerWeek == 7
\* datetime.timedelta.max.days: a larger magnitude raises OverflowError
TimedeltaMaxDays == 999999999

Raise(exc) == [kind |-> "raise", exc |-> exc]
Return(v) == [kind |-> "return", value |-> v]
\* `return None`: the "not parsed" value
ReturnNone == [kind |-> "none"]

\* timedelta(days=d, seconds=s) after normalisation, or the OverflowError
Timedelta(d, s) ==
    LET days == d + (s \div SecondsPerDay)
        secs == s % SecondsPerDay
    IN IF days > TimedeltaMaxDays \/ days < -TimedeltaMaxDays
       THEN Raise("OverflowError")
       ELSE Return([days |-> days, seconds |-> secs])

ZeroDelta == [days |-> 0, seconds |-> 0]

TimedeltaHours(n) == Timedelta(n \div HoursPerDay, (n % HoursPerDay) * SecondsPerHour)
TimedeltaMinutes(n) == Timedelta(n \div MinutesPerDay, (n % MinutesPerDay) * SecondsPerMinute)
TimedeltaSeconds(n) == Timedelta(n \div SecondsPerDay, n % SecondsPerDay)
TimedeltaDays(n) == Timedelta(n, 0)
TimedeltaWeeks(n) == Timedelta(n * DaysPerWeek, 0)

\* timedelta.__add__
AddDelta(a, b) == Timedelta(a.days + b.days, a.seconds + b.seconds)

(***************************************************************************)
(* TimeParser.parse_duration                                               *)
(***************************************************************************)
W_hour == <<"h", "o", "u", "r">>
W_hr == <<"h", "r">>
W_minute == <<"m", "i", "n", "u", "t", "e">>
W_min == <<"m", "i", "n">>
W_second == <<"s", "e", "c", "o", "n", "d">>
W_sec == <<"s", "e", "c">>
W_day == <<"d", "a", "y">>

\* r'(\d+)\s*(?:A|B)' matches at i: greedy digits, greedy whitespace, a unit
\* word.  A shorter \d+ leaves a digit where whitespace or the unit must be.
UnitMatchAt(s, i, alts) ==
    /\ IsDigit(s[i])
    /\ \E a \in alts : StartsAt(s, SkipSpaces(s, DigitRunEnd(s, i) + 1), a)

\* re.search(pattern, s): position of the leftmost match, 0 when there is none
UnitSearch(s, alts) ==
    LET hits == {i \in 1..Len(s) : UnitMatchAt(s, i, alts)} IN
    IF hits = {} THEN 0 ELSE MinOf(hits)

\* int(m.group(1))
UnitGroup1(s, i) == ParseInt(SubSeq(s, i, DigitRunEnd(s, i)))

\* the (pattern, delta_func) table of parse_duration, in declared order
DurationPatterns ==
    << [alts |-> {W_hour, W_hr}, unit |-> "hours"],
       [alts |-> {W_minute, W_min}, unit |-> "minutes"],
       [alts |-> {W_second, W_sec}, unit |-> "seconds"],
       [alts |-> {W_day}, unit |-> "days"] >>

DeltaFunc(unit, n) ==
    CASE unit = "hours" -> TimedeltaHours(n)
      [] unit = "minutes" -> TimedeltaMinutes(n)
      [] unit = "seconds" -> TimedeltaSeconds(n)
      [] unit = "days" -> TimedeltaDays(n)

\* the loop over the patterns from index k on; acc is total_delta, or the
\* exception that left the loop
RECURSIVE DurationLoop(_, _, _)
DurationLoop(s, k, acc) ==
    IF k > Len(DurationPatterns) \/ acc.kind = "raise" THEN acc
    ELSE LET p == DurationPatterns[k]
             at == UnitSearch(s, p.alts)
         IN IF at = 0 THEN DurationLoop(s, k + 1, acc)
            ELSE LET d == DeltaFunc(p.unit, UnitGroup1(s, at)) IN
                 IF d.kind = "raise" THEN d
                 ELSE DurationLoop(s, k + 1, AddDelta(acc.value, d.value))

parse_duration(duration_string) ==
    LET s == Lower(duration_string)
        total == DurationLoop(s, 1, Return(ZeroDelta))
    IN IF total.kind = "raise" THEN total
       ELSE IF total.value # ZeroDelta THEN total ELSE ReturnNone

(***************************************************************************)
(* datetime                                                                *)
(***************************************************************************)
Datetime(date, hour, minute, second, micro) ==
    [date |-> date, hour |-> hour, minute |-> minute, second |-> second, micro |-> micro]

SecondOfDay(dt) == dt.hour * SecondsPerHour + dt.minute * SecondsPerMinute + dt.second

\* datetime.__gt__ of two naive datetimes
DtGreater(a, b) ==
    \/ a.date > b.date
    \/ a.date = b.date /\ SecondOfDay(a) > SecondOfDay(b)
    \/ a.date = b.date /\ SecondOfDay(a) = SecondOfDay(b) /\ a.micro > b.micro

\* datetime + timedelta
DtAdd(dt, td) ==
    LET t == SecondOfDay(dt) + td.seconds
        sod == t % SecondsPerDay
    IN Datetime(dt.date + td.days + (t \div SecondsPerDay),
                sod \div SecondsPerHour,
                (sod % SecondsPerHour) \div SecondsPerMinute,
                sod % SecondsPerMinute,
                dt.micro)

\* datetime.weekday(): Monday is 0; date 0 is a Monday
Weekday(dt) == dt.date % DaysPerWeek

\* datetime.replace(hour=, minute=, second=0, microsecond=0)
Replace(dt, hour, minute) ==
    IF hour \in 0..23 /\ minute \in 0..59
    THEN Return(Datetime(dt.date, hour, minute, 0, 0))
    ELSE Raise("ValueError")

(***************************************************************************)
(* TimeParser.parse                                                        *)
(***************************************************************************)
W_in_ == <<"i", "n", " ">>
W_week == <<"w", "e", "e", "k">>
W_tomorrow == <<"t", "o", "m", "o", "r", "r", "o", "w">>
W_today == <<"t", "o", "d", "a", "y">>
W_am == <<"a", "m">>
W_pm == <<"p", "m">>
W_monday == <<"m", "o", "n", "d", "a", "y">>
W_tuesday == <<"t", "u", "e", "s", "d", "a", "y">>
W_wednesday == <<"w", "e", "d", "n", "e", "s", "d", "a", "y">>
W_thursday == <<"t", "h", "u", "r", "s", "d", "a", "y">>
W_friday == <<"f", "r", "i", "d", "a", "y">>
W_saturday == <<"s", "a", "t", "u", "r", "d", "a", "y">>
W_sunday == <<"s", "u", "n", "d", "a", "y">>

\* The outcome of dateutil's parser.parse(text, fuzzy=True, default=ref) is an
\* input of the model: it raises ValueError, or returns a naive datetime, or
\* returns a timezone-aware one (whose comparison with the naive reference
\* raises TypeError).
\* the acceptance test with the date comparison turned around
FuzzyAccepted_Reversed(parsed, reference_time) ==
    DtGreater(parsed, reference_time) \/ parsed.date <= reference_time.date

FuzzyAccepted(parsed, reference_time) ==
    DtGreater(parsed, reference_time) \/ parsed.date >= reference_time.date

\* lines 187-192: the accepted result, or "pass" when the try block falls through
FuzzyStage(fz, reference_time) ==
    IF fz.kind = "naive" /\ FuzzyAccepted(fz.value, reference_time)
    THEN Return(fz.value)
    ELSE [kind |-> "pass"]

\* a Python value passed as a timedelta keyword argument
IntArg(n) == [py |-> "int", v |-> n]
IntClass == [py |-> "type"]

\* timedelta(<unit>=arg): anything but a number raises TypeError
TimedeltaOf(unit, arg) ==
    IF arg.py # "int" THEN Raise("TypeError")
    ELSE CASE unit = "minutes" -> TimedeltaMinutes(arg.v)
           [] unit = "hours" -> TimedeltaHours(arg.v)
           [] unit = "days" -> TimedeltaDays(arg.v)
           [] unit = "weeks" -> TimedeltaWeeks(arg.v)

\* a lambda of no arguments returning a timedelta: callable
Lambda(d) == [callable |-> TRUE, delta |-> d]
\* a timedelta object stored where a function is expected: not callable
Object(d) == [callable |-> FALSE, delta |-> d]

\* the entries of the list literal of lines 198-205, each evaluated when the
\* list is built
RelativeEntries ==
    << [num |-> TRUE, word |-> W_minute, made |-> TimedeltaOf("minutes", IntClass)],
       [num |-> TRUE, word |-> W_hour, made |-> TimedeltaOf("hours", IntClass)],
       [num |-> TRUE, word |-> W_day, made |-> TimedeltaOf("days", IntClass)],
       [num |-> TRUE, word |-> W_week, made |-> TimedeltaOf("weeks", IntClass)],
       [num |-> FALSE, word |-> W_tomorrow,
        made |-> Return(Lambda(TimedeltaOf("days", IntArg(1)).value))],
       [num |-> FALSE, word |-> W_today,
        made |-> Return(Lambda(TimedeltaOf("days", IntArg(0)).value))] >>

\* building relative_patterns: the first element whose evaluation raises ends it
relative_patterns ==
    LET bad == {k \in 1..Len(RelativeEntries) : RelativeEntries[k].made.kind = "raise"} IN
    IF bad # {} THEN RelativeEntries[MinOf(bad)].made
    ELSE Return([k \in 1..Len(RelativeEntries) |->
                    [num |-> RelativeEntries[k].num, word |-> RelativeEntries[k].word,
                     func |-> IF RelativeEntries[k].num
                              THEN Object(RelativeEntries[k].made.value)
                              ELSE RelativeEntries[k].made.value]])

\* r'in (\d+) <word>s?' matches at i
RelMatchAt(s, i, word) ==
    /\ StartsAt(s, i, W_in_)
    /\ i + 3 <= Len(s)
    /\ IsDigit(s[i + 3])
    /\ StartsAt(s, DigitRunEnd(s, i + 3) + 1, <<" ">> \o word)

\* re.search(pattern, time_string) for one entry of relative_patterns
RelSearch(s, e) ==
    IF e.num THEN \E i \in 1..Len(s) : RelMatchAt(s, i, e.word)
    ELSE Contains(s, e.word)

\* lines 207-215: the loop over relative_patterns from index k on
RECURSIVE RelativeLoop(_, _, _, _)
RelativeLoop(s, reference_time, table, k) ==
    IF k > Len(table) THEN [kind |-> "pass"]
    ELSE IF ~RelSearch(s, table[k]) THEN RelativeLoop(s, reference_time, table, k + 1)
    ELSE IF table[k].func.callable
         THEN Return(DtAdd(reference_time, table[k].func.delta))
         ELSE Raise("TypeError")

\* lines 194-215
RelativeStage(s, reference_time) ==
    IF relative_patterns.kind = "raise" THEN relative_patterns
    ELSE RelativeLoop(s, reference_time, relative_patterns.value, 1)

\* int(x) of a captured group: ValueError unless it is a run of digits
IntOf(g) ==
    IF Len(g) > 0 /\ \A k \in 1..Len(g) : IsDigit(g[k])
    THEN Return(ParseInt(g))
    ELSE Raise("ValueError")

\* the (am|pm) alternative at position q: the word, or <<>> when neither is there
AmPmAt(s, q) ==
    IF StartsAt(s, q, W_am) THEN W_am
    ELSE IF StartsAt(s, q, W_pm) THEN W_pm
    ELSE <<>>

\* r'(\d{1,2}):(\d{2})\s*(am|pm)?' at i: the length of group 1, 0 when no match
ColonMatchLen(s, i) ==
    IF ~IsDigit(s[i]) THEN 0
    ELSE IF /\ i + 4 <= Len(s)
            /\ IsDigit(s[i + 1]) /\ s[i + 2] = ":"
            /\ IsDigit(s[i + 3]) /\ IsDigit(s[i + 4])
         THEN 2
    ELSE IF /\ i + 3 <= Len(s)
            /\ s[i + 1] = ":"
            /\ IsDigit(s[i + 2]) /\ IsDigit(s[i + 3])
         THEN 1
    ELSE 0

\* r'(\d{1,2})\s*(am|pm)' at i: the length of group 1, 0 when no match
AmPmMatchLen(s, i) ==
    IF ~IsDigit(s[i]) THEN 0
    ELSE IF /\ i + 1 <= Len(s) /\ IsDigit(s[i + 1])
            /\ AmPmAt(s, SkipSpaces(s, i + 2)) # <<>>
         THEN 2
    ELSE IF AmPmAt(s, SkipSpaces(s, i + 1)) # <<>>
         THEN 1
    ELSE 0

\* match.groups() of the leftmost match of time pattern k (1: with a colon,
\* 2: hour and am/pm only); <<>> when the pattern does not match.  An
\* unmatched optional group is the empty string here (None in Python).
TimeGroups(s, k) ==
    IF k = 1
    THEN LET hits == {i \in 1..Len(s) : ColonMatchLen(s, i) > 0} IN
         IF hits = {} THEN <<>>
         ELSE LET i == MinOf(hits)
                  n == ColonMatchLen(s, i)
              IN << SubSeq(s, i, i + n - 1),
                    SubSeq(s, i + n + 1, i + n + 2),
                    AmPmAt(s, SkipSpaces(s, i + n + 3)) >>
    ELSE LET hits == {i \in 1..Len(s) : AmPmMatchLen(s, i) > 0} IN
         IF hits = {} THEN <<>>
         ELSE LET i == MinOf(hits)
                  n == AmPmMatchLen(s, i)
              IN << SubSeq(s, i, i + n - 1), AmPmAt(s, SkipSpaces(s, i + n)) >>

\* lines 231-235: the 12-hour normalisation
NormalizeHour(hour, ampm) ==
    IF ampm = W_pm /\ hour # 12 THEN hour + 12
    ELSE IF ampm = W_am /\ hour = 12 THEN 0
    ELSE hour

\* lines 226-240: the body of the try block for the groups of one match
TimeOfMatch(groups, parsed_time) ==
    LET hour == IntOf(groups[1])
        minute == IF Len(groups) > 1 THEN IntOf(groups[2]) ELSE Return(0)
        ampm == IF Len(groups) > 2 THEN groups[3] ELSE <<>>
    IN IF hour.kind = "raise" THEN hour
       ELSE IF minute.kind = "raise" THEN minute
       ELSE Replace(parsed_time, NormalizeHour(hour.value, ampm), minute.value)

\* lines 217-240: the loop over time_patterns from index k on; a ValueError
\* is caught and the next pattern is tried
RECURSIVE TimeLoop(_, _, _)
TimeLoop(s, parsed_time, k) ==
    IF k > 2 THEN [kind |-> "pass"]
    ELSE LET groups == TimeGroups(s, k) IN
         IF groups = <<>> THEN TimeLoop(s, parsed_time, k + 1)
         ELSE LET r == TimeOfMatch(groups, parsed_time) IN
              IF r.kind = "raise" /\ r.exc = "ValueError"
              THEN TimeLoop(s, parsed_time, k + 1)
              ELSE r

\* lines 243-246: days_of_week, in insertion order
days_of_week ==
    << W_monday, W_tuesday, W_wednesday, W_thursday, W_friday, W_saturday, W_sunday >>

\* lines 248-255: the first weekday name contained in the text decides
WeekdayStage(s, reference_time) ==
    LET found == {k \in 1..Len(days_of_week) : Contains(s, days_of_week[k])} IN
    IF found = {} THEN [kind |-> "pass"]
    ELSE LET day_num == MinOf(found) - 1
             diff == day_num - Weekday(reference_time)
             days_ahead == IF diff <= 0 THEN diff + DaysPerWeek ELSE diff
         IN Return(DtAdd(reference_time, TimedeltaDays(days_ahead).value))

\* TimeParser.parse(time_string, reference_time), with fz the outcome of the
\* dateutil call.  The result carries the strategy that ended the call.
parse(time_string, reference_time, fz) ==
    LET s == Strip(Lower(time_string))
        fuzzy == FuzzyStage(fz, reference_time)
        rel == RelativeStage(s, reference_time)
        tim == TimeLoop(s, reference_time, 1)
        wd == WeekdayStage(s, reference_time)
    IN IF fuzzy.kind # "pass" THEN [out |-> fuzzy, via |-> "fuzzy"]
       ELSE IF rel.kind # "pass" THEN [out |-> rel, via |-> "relative"]
       ELSE IF tim.kind # "pass" THEN [out |-> tim, via |-> "time"]
       ELSE IF wd.kind # "pass" THEN [out |-> wd, via |-> "weekday"]
       ELSE [out |-> ReturnNone, via |-> "none"]

(***************************************************************************)
(* TimeParser.format_relative                                              *)
(***************************************************************************)
\* floor((dt - now).total_seconds()): the comparisons of lines 293-300 are
\* with whole numbers, which the floor decides exactly
TotalSeconds(dt, now) ==
    (dt.date - now.date) * SecondsPerDay + SecondOfDay(dt) - SecondOfDay(now)
        - (IF dt.micro < now.micro THEN 1 ELSE 0)

\* The buckets after "in a few seconds".  The source file ends inside the
\* `seconds < 3600` branch; the phrases are the minutes / hours / days
\* buckets the specification describes, each with the count it shows.
LaterBuckets(seconds) ==
    IF seconds < SecondsPerHour
    THEN [unit |-> "minutes", count |-> seconds \div SecondsPerMinute]
    ELSE IF seconds < SecondsPerDay
    THEN [unit |-> "hours", count |-> seconds \div SecondsPerHour]
    ELSE [unit |-> "days", count |-> seconds \div SecondsPerDay]

\* format_relative with `<= 0` for `< 0`
format_relative_InclusivePast(dt, now) ==
    LET seconds == TotalSeconds(dt, now) IN
    IF seconds <= 0 THEN [unit |-> "in the past", count |-> 0]
    ELSE IF seconds < SecondsPerMinute THEN [unit |-> "in a few seconds", count |-> 0]
    ELSE LaterBuckets(seconds)

\* lines 287-301
format_relative(dt, now) ==
    LET seconds == TotalSeconds(dt, now) IN
    IF seconds < 0 THEN [unit |-> "in the past", count |-> 0]
    ELSE IF seconds < SecondsPerMinute THEN [unit |-> "in a few seconds", count |-> 0]
    ELSE LaterBuckets(seconds)

(***************************************************************************)
(* Inputs of the TimeParser calls                                          *)
(***************************************************************************)
MaxN == 3            \* N of "in N <unit>" ranges over 1..MaxN
MaxParts == 2        \* a duration text has at most MaxParts "<n> <unit>" parts
\* the reference dates are the whole week that starts at date FirstDate
FirstDate == DaysPerWeek
\* the least number of days that no timedelta holds
BigDays == TimedeltaMaxDays + 1

\* str(n) for n >= 0
RECURSIVE Str(_)
Str(n) ==
    IF n < 10 THEN <<DigitChars[n + 1]>>
    ELSE Str(n \div 10) \o <<DigitChars[(n % 10) + 1]>>

S == <<"s">>
SP == <<" ">>

RefTimes ==
    { Datetime(0, 0, 0, 0, 0), Datetime(0, 10, 30, 15, 7), Datetime(0, 23, 59, 59, 0) }

References ==
    { Datetime(d, t.hour, t.minute, t.second, t.micro) :
        d \in FirstDate..(FirstDate + DaysPerWeek - 1), t \in RefTimes }

\* what the dateutil call may give for a reference instant
FuzzyOutcomes(ref) ==
    {[kind |-> "ValueError"]}
    \cup { [kind |-> k, value |-> Datetime(ref.date + d, h, ref.minute, ref.second, ref.micro)] :
             k \in {"naive", "aware"}, d \in {-1, 0, 1}, h \in {0, 15} }

\* "in N <unit>": every spelling of the four units
UnitSpellings ==
    { [unit |-> "minutes", abbr |-> FALSE, word |-> W_minute],
      [unit |-> "minutes", abbr |-> FALSE, word |-> W_minute \o S],
      [unit |-> "minutes", abbr |-> TRUE, word |-> W_min],
      [unit |-> "minutes", abbr |-> TRUE, word |-> W_min \o S],
      [unit |-> "hours", abbr |-> FALSE, word |-> W_hour],
      [unit |-> "hours", abbr |-> FALSE, word |-> W_hour \o S],
      [unit |-> "hours", abbr |-> TRUE, word |-> W_hr],
      [unit |-> "hours", abbr |-> TRUE, word |-> W_hr \o S],
      [unit |-> "days", abbr |-> FALSE, word |-> W_day],
      [unit |-> "days", abbr |-> FALSE, word |-> W_day \o S],
      [unit |-> "weeks", abbr |-> FALSE, word |-> W_week],
      [unit |-> "weeks", abbr |-> FALSE, word |-> W_week \o S] }

InTexts ==
    { [form |-> "in", n |-> n, unit |-> u.unit, abbr |-> u.abbr,
       text |-> W_in_ \o Str(n) \o SP \o u.word] : n \in 1..MaxN, u \in UnitSpellings }

\* "H am/pm" and "H:MM [am/pm]"
ClockTexts ==
    { [form |-> "clock", h |-> c[1], m |-> 0, ampm |-> c[2],
       text |-> Str(c[1]) \o c[2]] :
        c \in { <<3, W_pm>>, <<12, W_am>>, <<12, W_pm>>, <<9, W_am>> } }
    \cup
    { [form |-> "clock", h |-> c[1], m |-> c[2], ampm |-> c[3],
       text |-> Str(c[1]) \o <<":">> \o Str(c[2]) \o c[4] \o c[3]] :
        c \in { <<2, 30, W_am, SP>>, <<14, 45, <<>>, <<>> >>, <<12, 15, W_pm, <<>> >> } }

\* "on <weekday>"
WeekdayTexts ==
    { [form |-> "weekday", day |-> k - 1,
       text |-> <<"o", "n", " ">> \o days_of_week[k]] : k \in 1..Len(days_of_week) }

OtherTexts ==
    { [form |-> "gibberish",
       text |-> <<"g", "i", "b", "b", "e", "r", "i", "s", "h", " ", "x", "y", "z">>],
      [form |-> "keyword", text |-> W_today],
      [form |-> "keyword", text |-> W_tomorrow],
      [form |-> "mixed",
       text |-> <<" ", "T", "o", "m", "o", "r", "r", "o", "w", " ", "a", "t", " ", "3", "P", "M", " ">>],
      [form |-> "mixed", text |-> <<"2", "5", ":", "0", "0">>],
      [form |-> "mixed", text |-> <<"1", "3", "p", "m">>] }

ParseInputs == InTexts \cup ClockTexts \cup WeekdayTexts \cup OtherTexts

\* the spellings of one "<n><gap><unit>" part of a duration text
DurationWords ==
    { [unit |-> "hours", word |-> <<" ", "H", "o", "u", "r", "s">>],
      [unit |-> "hours", word |-> W_hr],
      [unit |-> "minutes", word |-> SP \o W_minute \o S],
      [unit |-> "minutes", word |-> W_min],
      [unit |-> "seconds", word |-> <<" ", " ">> \o W_sec],
      [unit |-> "days", word |-> SP \o W_day \o S] }

DurationParts ==
    { [n |-> n, unit |-> w.unit, text |-> Str(n) \o w.word] :
        n \in {0, 2, 30, BigDays}, w \in DurationWords }

RECURSIVE JoinParts(_)
JoinParts(ps) ==
    IF Len(ps) = 0 THEN <<>>
    ELSE IF Len(ps) = 1 THEN ps[1].text
    ELSE ps[1].text \o SP \o JoinParts(Tail(ps))

RECURSIVE PartSeqs(_)
PartSeqs(k) ==
    IF k = 0 THEN {<<>>}
    ELSE PartSeqs(k - 1)
         \cup { Append(ps, p) : ps \in {q \in PartSeqs(k - 1) : Len(q) = k - 1},
                                p \in DurationParts }

Nonsense == <<"n", "o", "n", "s", "e", "n", "s", "e">>

\* the current wall-clock time read by format_relative
Nows == { Datetime(FirstDate, 10, 30, 15, 7), Datetime(FirstDate, 23, 59, 59, 0) }

\* the offsets (in seconds, and in microseconds) of the instants formatted
Offsets ==
    { -SecondsPerDay - 1, -5, 0, 30, 59, 60, 3599, 3600,
      SecondsPerDay - 1, SecondsPerDay, 2 * SecondsPerDay + 5 }

Instants(now) ==
    { LET d == DtAdd(now, [days |-> 0, seconds |-> o]) IN
      Datetime(d.date, d.hour, d.minute, d.second, us) :
        o \in Offsets, us \in {0, now.micro} }

(***************************************************************************)
(* The TimeParser calls.  parse and parse_duration are pure: the arguments *)
(* of the call are drawn initially and the action applies the function.    *)
(* format_relative reads the wall clock when it is called; successive      *)
(* calls are recorded, so that two of them can be compared.                *)
(***************************************************************************)
MaxCalls == 2        \* format_relative is called at most MaxCalls times in a run

Pending == [out |-> [kind |-> "pending"], via |-> "pending"]
NoCall == [op |-> "none"]

ParseCalls ==
    UNION { { [op |-> "parse", inp |-> inp, ref |-> ref, fz |-> fz] :
                 inp \in ParseInputs, fz \in FuzzyOutcomes(ref) } : ref \in References }

DurationCalls ==
    { [op |-> "parse_duration", parts |-> ps, text |-> JoinParts(ps)] :
        ps \in PartSeqs(MaxParts) }
    \cup
    { [op |-> "parse_duration", parts |-> ps, text |-> Nonsense \o SP \o JoinParts(ps)] :
        ps \in PartSeqs(1) }

Parse ==
    /\ call.op = "parse"
    /\ result = Pending
    /\ result' = parse(call.inp.text, call.ref, call.fz)
    /\ UNCHANGED <<call, configVars>>

ParseDuration ==
    /\ call.op = "parse_duration"
    /\ result = Pending
    /\ result' = [out |-> parse_duration(call.text), via |-> "-"]
    /\ UNCHANGED <<call, configVars>>

FormatRelative ==
    /\ call.op = "format_relative"
    /\ Len(call.done) < MaxCalls
    /\ \E now \in Nows :
         \E dt \in Instants(now) :
           /\ call' = [call EXCEPT !.done =
                          Append(@, [dt |-> dt, now |-> now,
                                     phrase |-> format_relative(dt, now)])]
           /\ result' = [out |-> format_relative(dt, now), via |-> "-"]
    /\ UNCHANGED configVars

TimeInit ==
    /\ call \in ParseCalls \cup DurationCalls \cup {[op |-> "format_relative", done |-> <<>>]}
    /\ result = Pending

(***************************************************************************)
(* AssistantConfig                                                         *)
(***************************************************************************)
\* the dataclass fields the model follows, and the class attributes that are
\* not fields (hasattr is true of both)
Fields == {"name", "weather_api_key", "search_api_key"}
Methods == {"save_to_file"}
Attrs == Fields \cup Methods

\* cls(): every attribute read from the class
Defaults ==
    [a \in Attrs |->
        CASE a = "name" -> "Assistant"
          [] a = "weather_api_key" -> ""
          [] a = "search_api_key" -> ""
          [] a = "save_to_file" -> "<method>"]

EnvVars == {"WEATHER_API_KEY", "SEARCH_API_KEY"}

\* the key of env_overrides that each variable fills
EnvField(v) == IF v = "WEATHER_API_KEY" THEN "weather_api_key" ELSE "search_api_key"

\* env_overrides, lines 55-58: os.environ.get(V, '') -- unset reads as ''
env_overrides(env) == [f \in {EnvField(v) : v \in EnvVars} |->
                          env[CHOOSE v \in EnvVars : EnvField(v) = f]]

\* dict.update(other): the keys of other win
DictUpdate(d, other) ==
    [k \in (DOMAIN d) \cup (DOMAIN other) |-> IF k \in DOMAIN other THEN other[k] ELSE d[k]]

\* cls(**config_data): an unexpected keyword raises TypeError
Construct_cls(config_data) ==
    IF \E k \in DOMAIN config_data : k \notin Fields THEN Raise("TypeError")
    ELSE Return(DictUpdate(Defaults, config_data))

\* AssistantConfig.load_from_file(config_path), lines 45-61
load_from_file(content, env) ==
    IF content.kind = "absent" THEN Return(Defaults)
    ELSE IF content.kind = "invalid" THEN Raise("YAMLError")
    ELSE IF content.kind = "list" THEN Raise("AttributeError")
    ELSE LET config_data == IF content.kind = "empty" THEN <<>> ELSE content.data
             overrides == env_overrides(env)
             set == {k \in DOMAIN overrides : overrides[k] # ""}
         IN Construct_cls(DictUpdate(config_data, [k \in set |-> overrides[k]]))

(***************************************************************************)
(* ConfigManager                                                           *)
(***************************************************************************)
MaxKwargs == 2       \* update(**kwargs) is called with at most MaxKwargs keywords

Paths == {"config.yaml", "alt.yaml"}

NoConfig == [set |-> FALSE, attrs |-> Defaults]
Config(attrs) == [set |-> TRUE, attrs |-> attrs]

\* __new__ without the `is None` test: a new object at every construction
New_Fresh(inst) == inst + 1

\* __new__, lines 93-96: the identity of the object the construction returns
New(inst) == IF inst = 0 THEN 1 ELSE inst

\* __init__, lines 98-100: does this construction call load_from_file
InitLoads(cfg) == ~cfg.set

\* hasattr(self._config, key): fields, methods and the instance dictionary
HasAttr(key) == key \in Attrs \cup {"__dict__"}

\* setattr(self._config, key, value)
SetAttr(attrs, key, value) ==
    IF key = "__dict__"
    THEN IF value = "{}" THEN Return(Defaults) ELSE Raise("TypeError")
    ELSE Return([attrs EXCEPT ![key] = value])

\* update(**kwargs), lines 110-114: the loop from keyword k on; a raise leaves
\* the earlier keywords applied
RECURSIVE UpdateLoop(_, _, _)
UpdateLoop(attrs, kwargs, k) ==
    IF k > Len(kwargs) THEN [attrs |-> attrs, out |-> "return"]
    ELSE IF ~HasAttr(kwargs[k].key) THEN UpdateLoop(attrs, kwargs, k + 1)
    ELSE LET r == SetAttr(attrs, kwargs[k].key, kwargs[k].value) IN
         IF r.kind = "raise" THEN [attrs |-> attrs, out |-> r.exc]
         ELSE UpdateLoop(r.value, kwargs, k + 1)

\* the contents a settings file can have
FileContents ==
    { [kind |-> "absent"], [kind |-> "empty"], [kind |-> "list"], [kind |-> "invalid"],
      [kind |-> "dict", data |-> [k \in {"name"} |-> "f1"]],
      [kind |-> "dict", data |-> [k \in {"name", "weather_api_key"} |-> "f2"]],
      [kind |-> "dict", data |-> [k \in {"search_api_key", "bogus"} |-> "f3"]] }

\* what the second settings file, given to reload, can hold
AltContents ==
    { [kind |-> "absent"], [kind |-> "invalid"],
      [kind |-> "dict", data |-> [k \in {"name", "search_api_key"} |-> "f4"]] }

FileSystems ==
    { [p \in Paths |-> IF p = "config.yaml" THEN c ELSE a] :
        c \in FileContents, a \in AltContents }

Environments == [EnvVars -> {"", "k1"}]

Keywords ==
    { [key |-> "name", value |-> "v1"],
      [key |-> "save_to_file", value |-> "v1"], [key |-> "bogus", value |-> "v1"],
      [key |-> "__dict__", value |-> "{}"], [key |-> "__dict__", value |-> "v1"] }

\* keyword sequences with distinct keys
RECURSIVE KwargSeqs(_)
KwargSeqs(n) ==
    IF n = 0 THEN {<<>>}
    ELSE KwargSeqs(n - 1)
         \cup { Append(ks, kw) : ks \in {q \in KwargSeqs(n - 1) : Len(q) = n - 1},
                                 kw \in Keywords }

DistinctKeys(ks) == \A a, b \in 1..Len(ks) : a # b => ks[a].key # ks[b].key

NoOp == [op |-> "none"]

\* ConfigManager(): __new__ then __init__.  The state keeps the object made
\* by __new__ even when __init__ raises.
Construction(op) ==
    LET obj == New(instance)
        loading == InitLoads(config)
        loaded == load_from_file(files["config.yaml"], environ)
    IN /\ instance' = obj
       /\ config' = IF loading /\ loaded.kind = "return" THEN Config(loaded.value) ELSE config
       /\ lastop' = [op |-> op, loaded |-> loading, ret |-> obj, before |-> config,
                     path |-> "config.yaml",
                     out |-> IF loading /\ loaded.kind = "raise" THEN loaded.exc ELSE "return"]

\* line 118, run when the module is imported: a raise fails the import
Import ==
    /\ phase = "start"
    /\ Construction("import")
    /\ phase' = IF lastop'.out = "return" THEN "imported" ELSE "import_failed"
    /\ UNCHANGED <<environ, files, timeVars>>

\* any later ConfigManager()
Construct ==
    /\ phase = "imported"
    /\ Construction("construct")
    /\ UNCHANGED <<phase, environ, files, timeVars>>

\* reload(config_path), lines 106-108
Reload ==
    /\ phase = "imported"
    /\ \E path \in Paths :
         LET loaded == load_from_file(files[path], environ) IN
         /\ config' = IF loaded.kind = "return" THEN Config(loaded.value) ELSE config
         /\ lastop' = [op |-> "reload", loaded |-> TRUE, path |-> path, before |-> config,
                       out |-> IF loaded.kind = "raise" THEN loaded.exc ELSE "return"]
    /\ UNCHANGED <<phase, instance, environ, files, timeVars>>

\* update(**kwargs), lines 110-114
Update ==
    /\ phase = "imported"
    /\ \E kwargs \in KwargSeqs(MaxKwargs) :
         /\ DistinctKeys(kwargs)
         /\ LET r == UpdateLoop(config.attrs, kwargs, 1) IN
            /\ config' = Config(r.attrs)
            /\ lastop' = [op |-> "update", loaded |-> FALSE, kwargs |-> kwargs,
                          before |-> config, out |-> r.out]
    /\ UNCHANGED <<phase, instance, environ, files, timeVars>>

ConfigInit ==
    /\ phase = "start"
    /\ instance = 0
    /\ config = NoConfig
    /\ environ \in Environments
    /\ files \in FileSystems
    /\ lastop = NoOp

ConfigNext == Import \/ Construct \/ Reload \/ Update

\* before the import: no settings file, no API key in the environment
Init ==
    /\ TimeInit
    /\ phase = "start" /\ instance = 0 /\ config = NoConfig /\ lastop = NoOp
    /\ environ = [v \in EnvVars |-> ""]
    /\ files = [p \in Paths |-> [kind |-> "absent"]]

Next == Parse \/ ParseDuration \/ FormatRelative

\* the TimeParser calls, with the configuration left as the import made it
Spec == Init /\ [][Next]_vars

\* the configuration calls, with no TimeParser call pending
ConfigSpecInit == ConfigInit /\ call = NoCall /\ result = Pending

ConfigSpec == ConfigSpecInit /\ [][ConfigNext]_vars

(***************************************************************************)
(* The claims                                                              *)
(***************************************************************************)
Parsed == call.op = "parse" /\ result # Pending

\* the dateutil result is a naive datetime dated on or after the reference date
FuzzyTaken == call.fz.kind = "naive" /\ call.fz.value.date >= call.ref.date

\* ref + k seconds, fields carried by hand
PlusSeconds(ref, k) ==
    LET t == ref.hour * 3600 + ref.minute * 60 + ref.second + k IN
    [date |-> ref.date + (t \div 86400), hour |-> (t % 86400) \div 3600,
     minute |-> (t % 3600) \div 60, second |-> t % 60, micro |-> ref.micro]

UnitLength(unit) ==
    CASE unit = "minutes" -> 60 [] unit = "hours" -> 3600
      [] unit = "days" -> 86400 [] unit = "weeks" -> 604800

\* C1: parse never raises: whatever the text, the reference instant and the
\* outcome of the fuzzy interpretation, the call returns; and for a text no
\* pattern matches ("gibberish xyz") that the fuzzy step does not resolve, it
\* returns the not-parsed value.
C1_ParseNeverRaises ==
    Parsed =>
        /\ result.out.kind # "raise"
        /\ (call.inp.form = "gibberish" /\ ~FuzzyTaken) => result.out = ReturnNone

\* C2: parse("in N <unit>", ref) returns exactly ref + N * unit, for every
\* spelling of minute, hour, day and week.
C2_InNUnits ==
    (Parsed /\ call.inp.form = "in") =>
        result.out = Return(PlusSeconds(call.ref, call.inp.n * UnitLength(call.inp.unit)))

ClockHour(h, ampm) ==
    IF ampm = W_pm /\ h # 12 THEN h + 12 ELSE IF ampm = W_am /\ h = 12 THEN 0 ELSE h

\* C3: for "H am/pm" and "H:MM [am/pm]" parse returns the reference date with
\* the 12-hour-normalised hour, the minute MM (or 0), second and microsecond 0.
C3_TimeOfDay ==
    (Parsed /\ call.inp.form = "clock") =>
        result.out = Return([date |-> call.ref.date,
                             hour |-> ClockHour(call.inp.h, call.inp.ampm),
                             minute |-> call.inp.m, second |-> 0, micro |-> 0])

\* C4: a text "on <weekday>" that the fuzzy step does not resolve is resolved
\* by the weekday name: the result is ref plus d days, 1 <= d <= 7, on the
\* named weekday (d = 5 from a Wednesday to Monday).
C4_WeekdayRollForward ==
    (Parsed /\ call.inp.form = "weekday" /\ ~FuzzyTaken) =>
        /\ result.via = "weekday"
        /\ result.out.kind = "return"
        /\ \E d \in 1..7 :
             /\ result.out.value = PlusSeconds(call.ref, d * 86400)
             /\ (call.ref.date + d) % 7 = call.inp.day
             /\ (call.ref.date % 7 = 2 /\ call.inp.day = 0) => d = 5

\* the contribution of the first part of each unit, as (days, seconds)
RECURSIVE FirstOf(_, _)
FirstOf(ps, unit) ==
    IF Len(ps) = 0 THEN [days |-> 0, seconds |-> 0]
    ELSE IF ps[1].unit = unit
    THEN CASE unit = "hours" -> [days |-> ps[1].n \div 24, seconds |-> (ps[1].n % 24) * 3600]
           [] unit = "minutes" -> [days |-> ps[1].n \div 1440, seconds |-> (ps[1].n % 1440) * 60]
           [] unit = "seconds" -> [days |-> ps[1].n \div 86400, seconds |-> ps[1].n % 86400]
           [] unit = "days" -> [days |-> ps[1].n, seconds |-> 0]
    ELSE FirstOf(Tail(ps), unit)

ExpectedDuration(ps) ==
    LET h == FirstOf(ps, "hours")
        m == FirstOf(ps, "minutes")
        s == FirstOf(ps, "seconds")
        d == FirstOf(ps, "days")
        secs == h.seconds + m.seconds + s.seconds
    IN [days |-> h.days + m.days + s.days + d.days + (secs \div 86400),
        seconds |-> secs % 86400]

\* C5: parse_duration returns the sum of the contributions of the unit
\* patterns that match, each once, and not-parsed exactly when the sum is zero.
C5_DurationSum ==
    (call.op = "parse_duration" /\ result # Pending) =>
        result.out = IF ExpectedDuration(call.parts) = [days |-> 0, seconds |-> 0]
                     THEN ReturnNone
                     ELSE Return(ExpectedDuration(call.parts))

\* C6: the strategies run in the order fuzzy, relative, time-of-day, weekday
\* and the first that matches produces the returned result.
C6_FirstMatchWins ==
    Parsed =>
        /\ FuzzyTaken => (result.via = "fuzzy" /\ result.out = Return(call.fz.value))
        /\ (~FuzzyTaken /\ call.inp.form = "in" /\ ~call.inp.abbr) =>
               (result.via = "relative" /\ result.out.kind = "return")
        /\ (~FuzzyTaken /\ call.inp.form = "clock") =>
               (result.via = "time" /\ result.out.kind = "return")
        /\ (~FuzzyTaken /\ call.inp.form = "weekday") =>
               (result.via = "weekday" /\ result.out.kind = "return")

\* instant - now as whole seconds and a microsecond remainder
DiffOf(e) ==
    LET s == (e.dt.date - e.now.date) * 86400
                + (e.dt.hour - e.now.hour) * 3600 + (e.dt.minute - e.now.minute) * 60
                + (e.dt.second - e.now.second)
        u == e.dt.micro - e.now.micro
    IN IF u < 0 THEN <<s - 1, u + 1000000>> ELSE <<s, u>>

DiffLeq(a, b) == a[1] < b[1] \/ (a[1] = b[1] /\ a[2] <= b[2])

\* the least difference, in seconds, a phrase can stand for
Implied(p) ==
    CASE p.unit = "in the past" -> -1
      [] p.unit = "in a few seconds" -> 0
      [] p.unit = "minutes" -> p.count * 60
      [] p.unit = "hours" -> p.count * 3600
      [] p.unit = "days" -> p.count * 86400

\* C7: format_relative gives "in the past" for an instant before now, "in a
\* few seconds" for 0 <= instant - now < 60 s, a minutes / hours / days phrase
\* beyond, and a larger difference never gives a phrase implying a smaller one.
C7_FormatRelative ==
    call.op = "format_relative" =>
        /\ \A k \in 1..Len(call.done) :
             LET e == call.done[k] IN
             /\ DiffOf(e)[1] < 0 <=> e.phrase.unit = "in the past"
             /\ (DiffOf(e)[1] >= 0 /\ DiffOf(e)[1] < 60) <=> e.phrase.unit = "in a few seconds"
             /\ DiffOf(e)[1] >= 60 => e.phrase.unit \in {"minutes", "hours", "days"}
             /\ DiffOf(e)[1] >= 0 => Implied(e.phrase) <= DiffOf(e)[1]
        /\ \A j, k \in 1..Len(call.done) :
             DiffLeq(DiffOf(call.done[j]), DiffOf(call.done[k]))
                 => Implied(call.done[j].phrase) <= Implied(call.done[k].phrase)

\* two calls, the later instant a whole bucket further away
C7_Witness ==
    /\ call.op = "format_relative"
    /\ Len(call.done) >= 2
    /\ call.done[1].phrase.unit = "in the past"
    /\ call.done[2].phrase.unit = "hours"

\* C8: parse returns the fuzzy result only when its date is on or after the
\* reference date; a fuzzy result dated before it is never returned, and the
\* call goes on to the pattern strategies.
C8_FuzzyAcceptance ==
    Parsed =>
        /\ result.via = "fuzzy" =>
              /\ result.out = Return(call.fz.value)
              /\ call.fz.value.date >= call.ref.date
        /\ (call.fz.kind = "naive" /\ call.fz.value.date < call.ref.date) =>
              /\ result.via \in {"relative", "time", "weekday", "none"}
              /\ result.out # Return(call.fz.value)

\* a fuzzy result dated the day before the reference was rejected
C8_Witness ==
    /\ Parsed
    /\ call.fz.kind = "naive"
    /\ call.fz.value.date < call.ref.date
    /\ result.via # "fuzzy"

\* the value the settings file gives a field, or the default
FileValue(content, f) ==
    IF content.kind = "dict" /\ f \in DOMAIN content.data THEN content.data[f]
    ELSE Defaults[f]

\* C9: a configuration returned by load_from_file has each API key equal to
\* its environment variable when that is non-empty, whether or not the file
\* exists, and the file's or default value otherwise.
C9_EnvOverlay ==
    (lastop.op \in {"import", "reload"} /\ lastop.loaded /\ lastop.out = "return") =>
        \A v \in EnvVars :
            config.attrs[EnvField(v)] =
                IF environ[v] # "" THEN environ[v]
                ELSE FileValue(files[lastop.path], EnvField(v))

\* the parts of C10 that do not depend on which keys update skips
C10_Common ==
    /\ lastop.op \in {"import", "construct"} => (lastop.ret = 1 /\ instance = 1)
    /\ (lastop.op # "none" /\ lastop.loaded) => lastop.op \in {"import", "reload"}
    /\ lastop.op = "construct" => config = lastop.before

\* C10 (as stated): one instance, loads only by the first construction and by
\* reload, a later construction keeps what update set, and update with a key
\* that is not a configuration field leaves the configuration unchanged.
C10_Original ==
    /\ C10_Common
    /\ (lastop.op = "update" /\ \A k \in 1..Len(lastop.kwargs) : lastop.kwargs[k].key \notin Fields)
           => config = lastop.before

\* the names hasattr finds on an AssistantConfig object
ObjectAttributes == Fields \cup Methods \cup {"__dict__"}

\* C10 (amended): one instance, loads only by the first construction and by
\* reload, a later construction keeps what update set, and update with a key
\* that is no attribute of the configuration object (neither a field, nor a
\* method, nor __dict__) leaves the configuration unchanged.
C10_Singleton ==
    /\ C10_Common
    /\ (lastop.op = "update"
          /\ \A k \in 1..Len(lastop.kwargs) : lastop.kwargs[k].key \notin ObjectAttributes)
           => config = lastop.before

\* a construction after update(name=...) returned the instance of the import
\* and kept the updated name, with a settings file that names another
C10_Witness ==
    /\ lastop.op = "construct"
    /\ lastop.ret = 1
    /\ ~lastop.loaded
    /\ config.attrs["name"] = "v1"
    /\ files["config.yaml"].kind = "dict"

====
